---- MODULE Spec2Model ----
(***************************************************************************)
(* Cerebro main process (src/src/main.ts): supervision of the Python       *)
(* backend subprocess (spawn, health polling, crash restart, shutdown)     *)
(* and the request bridge that forwards renderer calls to it.              *)
(*                                                                         *)
(* One step of the model is one turn of the single-threaded event loop:    *)
(* an event callback together with every microtask continuation it makes   *)
(* runnable.  Timers are abstracted to "may fire once armed".              *)
(***************************************************************************)
EXTENDS Integers, Sequences, FiniteSets, TLC

\* ------------------------------------------------------------------ bounds
\* loopback ports the operating system may hand out
NumPorts == 2
\* streams begun by the renderer
MaxStreams == 2
\* lines of an upstream body given to the stream parser
MaxLines == 2
\* before-quit events delivered to the application
MaxStops == 2
\* forward() calls made by the renderer
MaxCalls == 2
\* backend crashes explored while forward() calls are in flight
BridgeCrashes == 1
\* pushes of the Hugging Face token by the credential handlers
MaxPushes == 1

\* --------------------------------------------------------------- constants
MAX_RESTARTS == 3

Ports == 1..NumPorts

VARIABLES
    appReady,               \* app 'ready' has fired
    pythonProcess,          \* tracked ChildProcess (index into procs), 0 = null
    backendPort,            \* 0 = null
    backendStatus,          \* "stopped" | "starting" | "healthy" | "unhealthy"
    isIntentionalShutdown,
    restartCount,
    procs,                  \* every ChildProcess object spawn() has returned
    starts,                 \* every call of startPythonBackend()
    stops,                  \* every call of stopPythonBackend()
    calls,                  \* every call of makeBackendRequest()
    streams,                \* every stream begun; the index is the streamId
    activeStreams,          \* keys of the activeStreams map
    rendererGone,           \* webContents.isDestroyed() of the renderer
    storeFile,              \* credentials.enc
    tmpFile,                \* credentials.enc.tmp
    credOp,                 \* the store update in progress
    credMap,                \* per (service, key): value of the latest successful set
    decrypts,               \* callers on whose behalf decryptString has run
    hostExited              \* the main process has emitted 'exit'

supVars == <<appReady, pythonProcess, backendPort, backendStatus,
             isIntentionalShutdown, restartCount, procs, starts, stops>>
strVars == <<streams, activeStreams, rendererGone>>
credVars == <<storeFile, tmpFile, credOp, credMap, decrypts>>
vars == <<supVars, calls, strVars, credVars, hostExited>>

\* ------------------------------------------------------------ process view
\* state: "running" the OS process is alive
\*        "dead"    the OS process has terminated, 'exit' not yet emitted
\*        "exited"  'exit' has been emitted to the listeners
\*        "failed"  spawn() failed (bad executable): 'error' only, no 'exit'
Running(p) == procs[p].state = "running"
AliveProcs == {p \in 1..Len(procs) : Running(p)}
BoundPorts == {procs[p].port : p \in AliveProcs}
UsedPorts == {procs[p].port : p \in 1..Len(procs)}
\* Ports getFreePort() may return: any port no live process is bound to.
\* Port numbers are interchangeable, so ports are numbered in order of first
\* use: the candidates are the ports used before and the next unused one.
FreePorts == {q \in Ports : q <= Cardinality(UsedPorts) + 1} \ BoundPorts

\* ChildProcess.kill(sig): the signal is delivered, and `killed` set, only
\* while the object still has its handle (the 'exit' event has not fired).
KillProc(ps, p, sig) ==
    IF ps[p].state \in {"running", "dead"}
    THEN [ps EXCEPT ![p].killed = TRUE,
                    ![p].sigterm = @ \/ (sig = "SIGTERM" /\ ps[p].state = "running"),
                    ![p].sigkill = @ \/ (sig = "SIGKILL" /\ ps[p].state = "running")]
    ELSE ps

NewStart == [pc |-> "port", port |-> 0, proc |-> 0]

\* ------------------------------------------------------- credential store
\* Names are sequences of one-character strings; values are strings.
Huggingface == <<"h", "u", "g", "g", "i", "n", "g", "f", "a", "c", "e">>
ApiKey == <<"a", "p", "i", "_", "k", "e", "y">>

\* `${service}:${key}`
compositeKey(service, key) == service \o <<":">> \o key

\* A file is missing, partially written (its text is not a Store yet), or
\* complete with a Store: a set of entries [ck, encrypted], one per composite
\* key.
NoFile == [state |-> "missing", content |-> {}]
File(state, store) == [state |-> state, content |-> store]

\* safeStorage.encryptString / decryptString
encryptString(value) == <<"enc", value>>
decryptString(encrypted) == encrypted[2]

\* readStore(): a missing or unparsable file reads as the empty store
readStore == IF storeFile.state = "complete" THEN storeFile.content ELSE {}

Lookup(store, ck) == {entry \in store : entry.ck = ck}
Put(store, ck, encrypted) ==
    {entry \in store : entry.ck # ck} \cup {[ck |-> ck, encrypted |-> encrypted]}
Remove(store, ck) == {entry \in store : entry.ck # ck}

Null == [found |-> FALSE, value |-> ""]

\* getCredential(service, key) on a store, avail = isEncryptionAvailable()
getCredentialIn(store, service, key, avail) ==
    LET hits == Lookup(store, compositeKey(service, key))
    IN IF ~avail \/ hits = {} THEN Null
       ELSE [found |-> TRUE, value |-> decryptString((CHOOSE entry \in hits : TRUE).encrypted)]
getCredential(service, key, avail) == getCredentialIn(readStore, service, key, avail)

\* getCredential reaches safeStorage.decryptString
Decrypts(store, service, key, avail) ==
    avail /\ Lookup(store, compositeKey(service, key)) # {}

\* hasCredential(service, key)
hasCredentialIn(store, service, key) == Lookup(store, compositeKey(service, key)) # {}
hasCredential(service, key) == hasCredentialIn(readStore, service, key)

Init ==
    /\ appReady = FALSE
    /\ pythonProcess = 0
    /\ backendPort = 0
    /\ backendStatus = "stopped"
    /\ isIntentionalShutdown = FALSE
    /\ restartCount = 0
    /\ procs = << >>
    /\ starts = << >>
    /\ stops = << >>
    /\ calls = << >>
    /\ streams = << >>
    /\ activeStreams = {}
    /\ rendererGone = FALSE
    /\ storeFile = NoFile
    /\ tmpFile = NoFile
    /\ credOp = [pc |-> "idle", op |-> "none", arg |-> [given |-> FALSE, service |-> << >>],
                 new |-> {}, newMap |-> {}, push |-> FALSE]
    /\ credMap = {}
    /\ decrypts = {}
    /\ hostExited = FALSE

\* app.on('ready'): startPythonBackend() runs up to `await getFreePort()`.
AppReady ==
    /\ ~appReady
    /\ appReady' = TRUE
    /\ starts' = Append(starts, NewStart)
    /\ UNCHANGED <<pythonProcess, backendPort, backendStatus,
                   isIntentionalShutdown, restartCount, procs, stops, calls, strVars, credVars>>
    /\ UNCHANGED hostExited

\* getFreePort() rejects: the start() promise rejects, nothing was touched.
PortFailed(i) ==
    /\ i \in 1..Len(starts)
    /\ starts[i].pc = "port"
    /\ starts' = [starts EXCEPT ![i].pc = "failed"]
    /\ UNCHANGED <<appReady, pythonProcess, backendPort, backendStatus,
                   isIntentionalShutdown, restartCount, procs, stops, calls, strVars, credVars>>
    /\ UNCHANGED hostExited

\* (mutation) start() reports 'healthy' as soon as the process is spawned
PortAllocated_HealthyAtSpawn(i) ==
    /\ i \in 1..Len(starts)
    /\ starts[i].pc = "port"
    /\ \E port \in FreePorts, spawnOk \in BOOLEAN :
         /\ backendStatus' = "healthy"
         /\ procs' = Append(procs,
                [state |-> IF spawnOk THEN "running" ELSE "failed",
                 port |-> port, killed |-> FALSE,
                 sigterm |-> FALSE, sigkill |-> FALSE, crashed |-> FALSE])
         /\ pythonProcess' = Len(procs) + 1
         /\ backendPort' = port
         /\ starts' = [starts EXCEPT ![i] =
                [pc |-> "polling", port |-> port, proc |-> Len(procs) + 1]]
    /\ \E avail \in BOOLEAN :
         decrypts' = IF Decrypts(readStore, Huggingface, ApiKey, avail)
                     THEN decrypts \cup {"start"} ELSE decrypts
    /\ UNCHANGED <<appReady, isIntentionalShutdown, restartCount, stops, calls, strVars,
                   storeFile, tmpFile, credOp, credMap>>
    /\ UNCHANGED hostExited

\* getFreePort() resolves: status, spawn, handle and port assignment,
\* attachCrashHandler and the first poll() with its checkHealth() request.
PortAllocated(i) ==
    /\ i \in 1..Len(starts)
    /\ starts[i].pc = "port"
    /\ \E port \in FreePorts, spawnOk \in BOOLEAN :
         /\ backendStatus' = "starting"
         /\ procs' = Append(procs,
                [state |-> IF spawnOk THEN "running" ELSE "failed",
                 port |-> port, killed |-> FALSE,
                 sigterm |-> FALSE, sigkill |-> FALSE, crashed |-> FALSE])
         /\ pythonProcess' = Len(procs) + 1
         /\ backendPort' = port
         /\ starts' = [starts EXCEPT ![i] =
                [pc |-> "polling", port |-> port, proc |-> Len(procs) + 1]]
    /\ \E avail \in BOOLEAN :
         decrypts' = IF Decrypts(readStore, Huggingface, ApiKey, avail)
                     THEN decrypts \cup {"start"} ELSE decrypts
    /\ UNCHANGED <<appReady, isIntentionalShutdown, restartCount, stops, calls, strVars,
                   storeFile, tmpFile, credOp, credMap>>
    /\ UNCHANGED hostExited

\* (mutation) a health timeout is handled like a crash of the process
HealthFalse_TimeoutIsCrash(i) ==
    /\ i \in 1..Len(starts)
    /\ starts[i].pc = "polling"
    /\ \E timedOut \in BOOLEAN :
         IF timedOut
         THEN /\ starts' = [starts EXCEPT ![i].pc = "failed"]
              /\ restartCount' = IF restartCount < 3 THEN restartCount + 1
                                                     ELSE restartCount
         ELSE UNCHANGED <<starts, restartCount>>
    /\ UNCHANGED <<appReady, pythonProcess, backendPort, backendStatus,
                   isIntentionalShutdown, procs, stops, calls, strVars, credVars>>
    /\ UNCHANGED hostExited

\* (mutation) a start() that times out is retried with a fresh start()
HealthFalse_RetryOnTimeout(i) ==
    /\ i \in 1..Len(starts)
    /\ starts[i].pc = "polling"
    /\ \E timedOut \in BOOLEAN :
         starts' = IF timedOut
                   THEN Append([starts EXCEPT ![i].pc = "failed"], NewStart)
                   ELSE starts
    /\ UNCHANGED <<appReady, pythonProcess, backendPort, backendStatus,
                   isIntentionalShutdown, restartCount, procs, stops, calls, strVars, credVars>>
    /\ UNCHANGED hostExited

\* checkHealth(port) fails (connection refused, non-200 status, or its 2 s
\* request timeout): resolve(false) and setTimeout(poll, interval).  When the
\* timer fires, poll() either finds the 15 s budget spent and rejects, so
\* that start() fails, or sends the next checkHealth() request.
HealthFalse(i) ==
    /\ i \in 1..Len(starts)
    /\ starts[i].pc = "polling"
    /\ \E timedOut \in BOOLEAN :
         starts' = [starts EXCEPT ![i].pc = IF timedOut THEN "failed" ELSE "polling"]
    /\ UNCHANGED <<appReady, pythonProcess, backendPort, backendStatus,
                   isIntentionalShutdown, restartCount, procs, stops, calls, strVars, credVars>>
    /\ UNCHANGED hostExited

\* A live process listening on the polled port answers /health with 200; the
\* response is now on its way to the main process.
HealthAnswer(i) ==
    /\ i \in 1..Len(starts)
    /\ starts[i].pc = "polling"
    /\ starts[i].port \in BoundPorts
    /\ starts' = [starts EXCEPT ![i].pc = "answered"]
    /\ UNCHANGED <<appReady, pythonProcess, backendPort, backendStatus,
                   isIntentionalShutdown, restartCount, procs, stops, calls, strVars, credVars>>
    /\ UNCHANGED hostExited

\* The 200 response reaches the main process: checkHealth resolves true,
\* waitForHealthCheck resolves and start() sets 'healthy'.
HealthReply(i) ==
    /\ i \in 1..Len(starts)
    /\ starts[i].pc = "answered"
    /\ starts' = [starts EXCEPT ![i].pc = "done"]
    /\ backendStatus' = "healthy"
    /\ UNCHANGED <<appReady, pythonProcess, backendPort,
                   isIntentionalShutdown, restartCount, procs, stops, calls, strVars, credVars>>
    /\ UNCHANGED hostExited

\* The backend process terminates (crash, or reaction to a signal).
ProcDie(p) ==
    /\ p \in 1..Len(procs)
    /\ Running(p)
    /\ procs' = [procs EXCEPT ![p].state = "dead"]
    /\ UNCHANGED <<appReady, pythonProcess, backendPort, backendStatus,
                   isIntentionalShutdown, restartCount, starts, stops, calls, strVars, credVars>>
    /\ UNCHANGED hostExited

\* (mutation) the restart budget test is off by one
CanRestart_OffByOne == restartCount <= MAX_RESTARTS

\* the budget test of the crash handler
CanRestart == restartCount < MAX_RESTARTS

\* (mutation) the crash handler acts only once the backend has been healthy
ExitIsUnexpected_OnlyWhenHealthy == ~isIntentionalShutdown /\ backendStatus = "healthy"

\* (mutation) the crash handler does not look at the shutdown flag
ExitIsUnexpected_IgnoreFlag == TRUE

\* the crash handler returns at once when the shutdown flag is set
ExitIsUnexpected == ~isIntentionalShutdown

\* stop listeners (proc.once('exit') of stopPythonBackend) waiting on p
StopWaiters(p) == {s \in 1..Len(stops) : stops[s].pc = "waiting" /\ stops[s].proc = p}

\* 'exit' is emitted for p.  Listeners run in registration order: first the
\* crash handler armed at spawn, then the listeners of pending stop() calls.
ExitEvent(p) ==
    /\ p \in 1..Len(procs)
    /\ procs[p].state = "dead"
    /\ LET unexpected == ExitIsUnexpected
           restart == unexpected /\ CanRestart
       IN /\ procs' = [procs EXCEPT ![p].state = "exited", ![p].crashed = unexpected]
          /\ restartCount' = IF restart THEN restartCount + 1 ELSE restartCount
          /\ starts' = IF restart THEN Append(starts, NewStart) ELSE starts
          /\ stops' = [s \in 1..Len(stops) |->
                          IF s \in StopWaiters(p)
                          THEN [stops[s] EXCEPT !.pc = "resolved",
                                 !.timer = IF @ = "armed" THEN "cleared" ELSE @]
                          ELSE stops[s]]
          /\ backendStatus' = IF StopWaiters(p) # {} THEN "stopped"
                              ELSE IF unexpected THEN "unhealthy"
                              ELSE backendStatus
    /\ UNCHANGED <<appReady, pythonProcess, backendPort, isIntentionalShutdown, calls, strVars, credVars>>
    /\ UNCHANGED hostExited

\* app.on('before-quit'): set the flag, then stopPythonBackend().
BeforeQuit ==
    /\ appReady
    /\ Len(stops) < MaxStops
    /\ isIntentionalShutdown' = TRUE
    /\ IF pythonProcess = 0 \/ procs[pythonProcess].killed
       THEN /\ stops' = Append(stops, [pc |-> "resolved", proc |-> pythonProcess,
                                       timer |-> "none"])
            /\ UNCHANGED procs
       ELSE /\ stops' = Append(stops, [pc |-> "waiting", proc |-> pythonProcess,
                                       timer |-> "armed"])
            /\ procs' = KillProc(procs, pythonProcess, "SIGTERM")
    /\ UNCHANGED <<appReady, pythonProcess, backendPort, backendStatus,
                   restartCount, starts, calls, strVars, credVars>>
    /\ UNCHANGED hostExited

\* The 3 s killTimeout of a stop() call fires.
KillTimer(s) ==
    /\ s \in 1..Len(stops)
    /\ stops[s].timer = "armed"
    /\ stops' = [stops EXCEPT ![s].timer = "fired"]
    /\ procs' = IF ~procs[stops[s].proc].killed
                THEN KillProc(procs, stops[s].proc, "SIGKILL")
                ELSE procs
    /\ UNCHANGED <<appReady, pythonProcess, backendPort, backendStatus,
                   isIntentionalShutdown, restartCount, starts, calls, strVars, credVars>>
    /\ UNCHANGED hostExited

Next ==
    \/ AppReady
    \/ \E i \in 1..(MAX_RESTARTS + 2) : PortFailed(i)
    \/ \E i \in 1..(MAX_RESTARTS + 2) : PortAllocated(i)
    \/ \E i \in 1..(MAX_RESTARTS + 2) : HealthFalse(i)
    \/ \E i \in 1..(MAX_RESTARTS + 2) : HealthAnswer(i)
    \/ \E i \in 1..(MAX_RESTARTS + 2) : HealthReply(i)
    \/ \E p \in 1..(MAX_RESTARTS + 2) : ProcDie(p)
    \/ \E p \in 1..(MAX_RESTARTS + 2) : ExitEvent(p)
    \/ BeforeQuit
    \/ \E s \in 1..MaxStops : KillTimer(s)

Spec == Init /\ [][Next]_vars

\* ------------------------------------------------- supervisor: properties
\* the 'exit' events the crash handler treated as unexpected
Crashed == {p \in 1..Len(procs) : procs[p].crashed}

\* 'exit' is being delivered to the listeners in this step
ExitObserved == \E p \in 1..Len(procs) : procs[p].state = "dead" /\ procs'[p].state = "exited"

\* a backend process is being spawned in this step
Spawning == Len(procs') > Len(procs)

\* C1: the backend is spawned at most 4 times (the initial launch and at most
\* 3 restarts), every restart spawn is paid for by one observed unexpected
\* exit, and nothing is spawned after the 4th process exited unexpectedly.
C1_SpawnCap ==
    /\ Len(procs) <= 4
    /\ Len(procs) <= 1 + restartCount
    /\ Len(starts) <= 1 + restartCount
    /\ restartCount <= Cardinality(Crashed)

C1_Witness ==
    /\ Len(procs) = 4
    /\ Cardinality(Crashed) = 4
    /\ ~isIntentionalShutdown

\* the restart budget is spent and one more unexpected exit was observed
Exhausted == restartCount = MAX_RESTARTS /\ Cardinality(Crashed) > MAX_RESTARTS

\* C2 (as claimed): once the budget is exhausted and a further unexpected
\* exit was observed, status is Unhealthy in that state and in every later one.
C2_UnhealthyTerminal == Exhausted => backendStatus = "unhealthy"

\* C3: restartCount moves only by +1, only while the exit listener handles an
\* exit with the intentional-shutdown flag unset, and stays within 0..3.
C3_RestartCount ==
    /\ [](restartCount \in 0..3)
    /\ [][restartCount' # restartCount =>
            /\ restartCount' = restartCount + 1
            /\ ~isIntentionalShutdown
            /\ ExitObserved]_vars

C3_Witness ==
    /\ restartCount = 3
    /\ isIntentionalShutdown
    /\ \E p \in 1..Len(procs) : procs[p].state = "exited" /\ ~procs[p].crashed

\* C4: at most one backend process is alive, and every spawn after the first
\* happens only once the exit of the previously spawned process was observed.
C4_OneProcess ==
    /\ [](Cardinality(AliveProcs) <= 1)
    /\ [][Spawning /\ Len(procs) >= 1 => procs[Len(procs)].state = "exited"]_vars

C4_Witness ==
    /\ Len(procs) >= 2
    /\ Running(Len(procs))
    /\ \E i \in 1..Len(starts) : starts[i].pc = "failed" /\ starts[i].proc # 0
    /\ Len(stops) >= 1

\* C5 (as claimed): once stop() was called (flag set) no process is spawned.
C5_NoSpawnAfterStop == [][isIntentionalShutdown => ~Spawning]_vars

\* C6 (as claimed): when the 3 s grace timer of a stop() fires while the
\* process is still alive, that process is sent the force-kill signal.
C6_ForceKill ==
    [][\A s \in 1..Len(stops) :
          (stops[s].timer = "armed" /\ stops'[s].timer = "fired"
             /\ Running(stops[s].proc))
          => procs'[stops[s].proc].sigkill]_vars

\* stop() call s resolves in this step
Resolving(s) ==
    /\ s \in 1..Len(stops')
    /\ stops'[s].pc = "resolved"
    /\ (s > Len(stops) \/ stops[s].pc # "resolved")

\* C7 (as claimed): at the moment any stop() call resolves, the first or a
\* repeated one, no spawned backend process is still running.
C7_StopResolvesAfterExit ==
    [][\A s \in 1..MaxStops : Resolving(s) => AliveProcs' = {}]_vars

\* The event loop delivers pending 'exit' events and fires armed timers, and
\* a process that was sent SIGKILL terminates.
FairSpec ==
    /\ Spec
    /\ WF_vars(\E p \in 1..(MAX_RESTARTS + 2) : ExitEvent(p))
    /\ WF_vars(\E s \in 1..MaxStops : KillTimer(s))
    /\ WF_vars(\E p \in 1..(MAX_RESTARTS + 2) : ProcDie(p) /\ procs[p].sigkill)

\* C8 (as claimed): every call of stop() eventually resolves.
C8_StopTerminates ==
    \A s \in 1..MaxStops :
        (Len(stops) >= s) ~> (Len(stops) >= s /\ stops[s].pc = "resolved")

\* ------------------------------------------- supervisor: boot failures
\* no /health request of any start() was answered with HTTP 200
NeverAnswered == \A i \in 1..Len(starts) : starts[i].pc \notin {"answered", "done"}

\* Launch, health polling, crashes and restarts, without application quit.
BootNext ==
    \/ AppReady
    \/ \E i \in 1..(MAX_RESTARTS + 2) : PortFailed(i)
    \/ \E i \in 1..(MAX_RESTARTS + 2) : PortAllocated(i)
    \/ \E i \in 1..(MAX_RESTARTS + 2) : HealthFalse(i)
    \/ \E i \in 1..(MAX_RESTARTS + 2) : HealthAnswer(i)
    \/ \E i \in 1..(MAX_RESTARTS + 2) : HealthReply(i)
    \/ \E p \in 1..(MAX_RESTARTS + 2) : ProcDie(p)
    \/ \E p \in 1..(MAX_RESTARTS + 2) : ExitEvent(p)

\* Time passes: the 15 s budget of every pending health wait runs out.
BootFairSpec ==
    /\ Init /\ [][BootNext]_vars
    /\ \A i \in 1..(MAX_RESTARTS + 2) :
           WF_vars(HealthFalse(i) /\ starts'[i].pc = "failed")

\* C17: while the backend has not answered /health with 200, status is not
\* Healthy; a start() succeeds only on a 200 answer, and a health wait that
\* gets none ends with the timeout failure.
C17_HealthTimeout ==
    /\ [](NeverAnswered => backendStatus # "healthy")
    /\ [][\A i \in 1..Len(starts) :
            (starts[i].pc # "done" /\ starts'[i].pc = "done")
                => starts[i].pc = "answered"]_vars
    /\ \A i \in 1..(MAX_RESTARTS + 2) :
           (Len(starts) >= i /\ starts[i].pc = "polling")
               ~> (Len(starts) >= i /\ starts[i].pc \in {"failed", "answered"})

C17_Witness ==
    /\ NeverAnswered
    /\ \E i \in 1..Len(starts) :
           /\ starts[i].pc = "failed"
           /\ starts[i].proc # 0
           /\ Running(starts[i].proc)
    /\ backendStatus = "starting"

\* start() call i fails in this step (getFreePort rejection or health timeout)
StartFails(i) ==
    /\ i \in 1..Len(starts)
    /\ starts[i].pc # "failed"
    /\ starts'[i].pc = "failed"

\* C18: a start() that fails is not retried: the step in which it fails
\* neither increments restartCount nor begins a start() nor spawns, and a
\* process whose spawn failed stays the last one spawned, with no start()
\* begun and no restart counted for it.
C18_NoRetry ==
    /\ [][(\E i \in 1..(MAX_RESTARTS + 2) : StartFails(i)) =>
            /\ restartCount' = restartCount
            /\ Len(starts') = Len(starts)
            /\ ~Spawning]_vars
    /\ [](\A p \in 1..Len(procs) :
            procs[p].state = "failed" =>
                /\ p = Len(procs)
                /\ Len(starts) = p
                /\ restartCount = p - 1)

C18_Witness ==
    /\ Len(procs) >= 2
    /\ procs[Len(procs)].state = "failed"
    /\ starts[Len(starts)].pc = "failed"
    /\ \E i \in 1..Len(starts) :
           starts[i].pc = "failed" /\ starts[i].proc # 0
                /\ procs[starts[i].proc].state = "exited"

\* ------------------------------------------------------------ bytes and text
\* A chunk is a Buffer: a sequence of bytes. An ASCII byte is written as its
\* character; LeadByte and TrailByte are the two bytes of one two-byte UTF-8
\* character, TwoByteChar. Text is a sequence of characters.
LeadByte == "0xC3"
TrailByte == "0xA9"
TwoByteChar == "U+00E9"
ReplacementChar == "U+FFFD"

RECURSIVE toString(_)
\* Buffer.prototype.toString(): UTF-8 decoding of these bytes alone; a byte
\* sequence cut inside a character decodes to replacement characters
toString(bytes) ==
    IF bytes = << >> THEN << >>
    ELSE IF bytes[1] = LeadByte /\ Len(bytes) >= 2 /\ bytes[2] = TrailByte
         THEN <<TwoByteChar>> \o toString(SubSeq(bytes, 3, Len(bytes)))
    ELSE IF bytes[1] \in {LeadByte, TrailByte}
         THEN <<ReplacementChar>> \o toString(Tail(bytes))
    ELSE <<bytes[1]>> \o toString(Tail(bytes))

\* ---------------------------------------------------------- request bridge
\* HTTP status codes the backend may answer with
StatusCodes == {199, 200, 299, 300, 404, 500}

\* A request is well formed when building it does not throw: `new URL(url)`
\* accepts 127.0.0.1:<port> followed by the path, JSON.stringify accepts the
\* body, and http.request accepts the headers and the timeout.
Requests == [wellFormed : BOOLEAN]

NoEnvelope == [ok |-> FALSE, status |-> -1, data |-> "none"]

\* (mutation) the upper end of the 2xx range is inclusive
ResponseEnvelope_Inclusive(statusCode, data) ==
    [ok |-> statusCode >= 200 /\ statusCode <= 300, status |-> statusCode, data |-> data]

\* the envelope built in res.on('end')
ResponseEnvelope(statusCode, data) ==
    [ok |-> statusCode >= 200 /\ statusCode < 300, status |-> statusCode, data |-> data]

\* the envelope built by the unavailable, error and timeout paths
ErrorEnvelope(message) == [ok |-> FALSE, status |-> 0, data |-> message]

\* (mutation) the guard tests the port only
BackendUnavailable_PortOnly == backendPort = 0

\* the guard at the head of makeBackendRequest
BackendUnavailable == backendPort = 0 \/ backendStatus # "healthy"

\* (mutation) a later resolve() replaces the envelope already delivered
Settle_Overwrite(call, env) == [call EXCEPT !.pc = "resolved", !.env = env]

\* resolve(env) of the promise: only the first settlement takes effect
Settle(call, env) ==
    IF call.pc \in {"resolved", "rejected"}
    THEN call
    ELSE [call EXCEPT !.pc = "resolved", !.env = env]

\* makeBackendRequest(request): the promise executor runs synchronously.
\* pc: "sent"     the HTTP request is on the wire, no response yet
\*     "body"     the response head arrived, the body is being collected
\*     "resolved" the promise resolved with env
\*     "rejected" the executor threw, the promise rejected
\*     "dropped"  the connection closed mid-body: no 'end', nothing settles it
\* at: backendStatus when the call was made; port: where the HTTP request
\* was sent, 0 when none was issued.
\* sock: "none" no request, "open", "destroyed" (req.destroy() was called, the
\* socket's close is pending), "closed".
\* hit: the first of 'timeout' / 'error' the request ran into, else "none".
\* body: the bytes of the response body; rest: those not yet received;
\* data: the text collected by res.on('data').
NewCall(req, pc, port, env) ==
    [pc |-> pc, req |-> req, at |-> backendStatus, port |-> port, code |-> 0,
     env |-> env, sock |-> IF port = 0 THEN "none" ELSE "open", hit |-> "none",
     body |-> << >>, rest |-> << >>, data |-> << >>]

\* the call as the promise executor leaves it
ForwardCall(req) ==
    IF BackendUnavailable
    THEN NewCall(req, "resolved", 0, ErrorEnvelope("Backend not available"))
    ELSE IF ~req.wellFormed
    THEN NewCall(req, "rejected", 0, NoEnvelope)
    ELSE NewCall(req, "sent", backendPort, NoEnvelope)

Forward(req) ==
    /\ appReady
    /\ Len(calls) < MaxCalls
    /\ calls' = Append(calls, ForwardCall(req))
    /\ UNCHANGED <<supVars, strVars, credVars>>
    /\ UNCHANGED hostExited

\* http.request callback: the response head arrives from a live backend
\* that will send body.
ResponseHead(c, body) ==
    /\ c \in 1..Len(calls)
    /\ calls[c].pc = "sent"
    /\ calls[c].port \in BoundPorts
    /\ \E code \in StatusCodes :
         calls' = [calls EXCEPT ![c].pc = "body", ![c].code = code,
                                ![c].body = body, ![c].rest = body]
    /\ UNCHANGED <<supVars, strVars, credVars>>
    /\ UNCHANGED hostExited

\* res.on('data') with the next n bytes of the body: data += chunk.toString()
ResponseData(c, n) ==
    /\ c \in 1..Len(calls)
    /\ calls[c].pc = "body"
    /\ n \in 1..Len(calls[c].rest)
    /\ calls' = [calls EXCEPT
           ![c].rest = SubSeq(@, n + 1, Len(@)),
           ![c].data = @ \o toString(SubSeq(calls[c].rest, 1, n))]
    /\ UNCHANGED <<supVars, strVars, credVars>>
    /\ UNCHANGED hostExited

Quote == "\""

RECURSIVE Join(_)
\* the characters of a text as one string
Join(text) == IF text = << >> THEN "" ELSE text[1] \o Join(Tail(text))

\* JSON.parse succeeds. Of the texts the model sends, the JSON documents are
\* the string literals: a quote, characters other than quote and backslash,
\* a quote.
IsJson(text) ==
    /\ Len(text) >= 2
    /\ text[1] = Quote
    /\ text[Len(text)] = Quote
    /\ \A k \in 2..(Len(text) - 1) : text[k] \notin {Quote, "\\"}

\* try { parsed = JSON.parse(data) } catch { parsed = data }
Parsed(text) ==
    IF IsJson(text) THEN Join(SubSeq(text, 2, Len(text) - 1)) ELSE Join(text)

\* res.on('end'): decode the collected body and resolve.
ResponseEnd(c) ==
    /\ c \in 1..Len(calls)
    /\ calls[c].pc = "body"
    /\ calls[c].rest = << >>
    /\ calls' = [calls EXCEPT ![c] =
           Settle([calls[c] EXCEPT !.sock = "closed"],
                  ResponseEnvelope(calls[c].code, Parsed(calls[c].data)))]
    /\ UNCHANGED <<supVars, strVars, credVars>>
    /\ UNCHANGED hostExited

\* The connection closes after the head and before the end of the body
\* (backend crash, dropped connection): res emits 'aborted' and 'close', but
\* neither 'end' nor a request 'error', and res has no 'error' listener.
ResponseDropped(c) ==
    /\ c \in 1..Len(calls)
    /\ calls[c].pc = "body"
    /\ calls' = [calls EXCEPT ![c].pc = "dropped", ![c].sock = "closed"]
    /\ UNCHANGED <<supVars, strVars, credVars>>
    /\ UNCHANGED hostExited

\* req.on('error'): a socket error (refused, reset) before or during the
\* response.
RequestError(c) ==
    /\ c \in 1..Len(calls)
    /\ calls[c].pc \in {"sent", "body"}
    /\ calls' = [calls EXCEPT ![c] =
           Settle([calls[c] EXCEPT !.sock = "closed", !.hit = "error"],
                  ErrorEnvelope("socket error"))]
    /\ UNCHANGED <<supVars, strVars, credVars>>
    /\ UNCHANGED hostExited

\* err.message of a refused connection, as Node builds it: syscall, code,
\* address and port
ConnRefusedMessage(port) == "connect ECONNREFUSED 127.0.0.1:" \o ToString(port)

\* req.on('error') with ECONNREFUSED: nothing listens on the port any more
\* (the backend died and its exit has not been handled yet, or it stopped
\* listening).
RequestRefused(c) ==
    /\ c \in 1..Len(calls)
    /\ calls[c].pc = "sent"
    /\ calls[c].port \notin BoundPorts
    /\ calls' = [calls EXCEPT ![c] =
           Settle([calls[c] EXCEPT !.sock = "closed", !.hit = "refused"],
                  ErrorEnvelope(ConnRefusedMessage(calls[c].port)))]
    /\ UNCHANGED <<supVars, strVars, credVars>>
    /\ UNCHANGED hostExited

\* req.on('timeout'): the socket stayed idle for request.timeout ?? 30 s;
\* req.destroy(), then resolve.
RequestTimeout(c) ==
    /\ c \in 1..Len(calls)
    /\ calls[c].pc \in {"sent", "body"}
    /\ calls' = [calls EXCEPT ![c] =
           Settle([calls[c] EXCEPT !.sock = "destroyed", !.hit = "timeout"],
                  ErrorEnvelope("Request timed out"))]
    /\ UNCHANGED <<supVars, strVars, credVars>>
    /\ UNCHANGED hostExited

\* req.on('error') after req.destroy(): a request destroyed before any
\* response emits 'error' (socket hang up) when its socket closes.
LateError(c) ==
    /\ c \in 1..Len(calls)
    /\ calls[c].sock = "destroyed"
    /\ calls[c].code = 0
    /\ calls' = [calls EXCEPT ![c] =
           Settle([calls[c] EXCEPT !.sock = "closed"],
                  ErrorEnvelope("socket hang up"))]
    /\ UNCHANGED <<supVars, strVars, credVars>>
    /\ UNCHANGED hostExited

\* The supervisor runs underneath the bridge; the backend crashes at most
\* BridgeCrashes times while calls are being forwarded.
BridgeNext ==
    \/ AppReady
    \/ \E i \in 1..(BridgeCrashes + 1) : PortAllocated(i)
    \/ \E i \in 1..(BridgeCrashes + 1) : HealthFalse(i)
    \/ \E i \in 1..(BridgeCrashes + 1) : HealthAnswer(i)
    \/ \E i \in 1..(BridgeCrashes + 1) : HealthReply(i)
    \/ \E p \in 1..BridgeCrashes : ProcDie(p)
    \/ \E p \in 1..BridgeCrashes : ExitEvent(p)
    \/ \E req \in Requests : Forward(req)
    \/ \E c \in 1..MaxCalls : ResponseHead(c, << >>)
    \/ \E c \in 1..MaxCalls : ResponseEnd(c)
    \/ \E c \in 1..MaxCalls : ResponseDropped(c)
    \/ \E c \in 1..MaxCalls : RequestError(c)
    \/ \E c \in 1..MaxCalls : RequestRefused(c)
    \/ \E c \in 1..MaxCalls : RequestTimeout(c)
    \/ \E c \in 1..MaxCalls : LateError(c)

BridgeSpec == Init /\ [][BridgeNext]_vars

\* ----------------------------------------------------- bridge: properties
InRange(status) == 200 <= status /\ status < 300

C10_UnavailableGate ==
    \A c \in 1..Len(calls) :
        calls[c].at # "healthy" =>
            /\ calls[c].pc = "resolved"
            /\ calls[c].env = [ok |-> FALSE, status |-> 0, data |-> "Backend not available"]
            /\ calls[c].port = 0

C10_Witness ==
    \E c \in 1..Len(calls) :
        /\ calls[c].at = "unhealthy"
        /\ backendPort # 0
        /\ calls[c].pc = "resolved"

\* The idle timer of a pending request fires, and events already queued for
\* a request (end of body, error after destroy) are delivered.
BridgeFairSpec ==
    /\ BridgeSpec
    /\ WF_vars(\E c \in 1..MaxCalls : RequestTimeout(c))
    /\ WF_vars(\E c \in 1..MaxCalls : LateError(c))

\* C11 (as claimed): every forward() call dispatched to the backend
\* eventually resolves with an envelope, whatever happens to the connection.
C11_DispatchedResolves ==
    \A c \in 1..MaxCalls :
        (Len(calls) >= c /\ calls[c].port # 0)
            ~> (Len(calls) >= c /\ calls[c].pc = "resolved")

\* C12: a request that hits its timeout or a socket error resolves with
\* {ok:false, status:0, data:{error:<message>}}, a timed-out request is
\* destroyed, and no later event changes an envelope already delivered.
C12_ErrorEnvelopeOnce ==
    /\ [](\A c \in 1..Len(calls) :
            /\ calls[c].hit = "timeout" =>
                 /\ calls[c].pc = "resolved"
                 /\ calls[c].env = [ok |-> FALSE, status |-> 0, data |-> "Request timed out"]
                 /\ calls[c].sock \in {"destroyed", "closed"}
            /\ calls[c].hit = "error" =>
                 /\ calls[c].pc = "resolved"
                 /\ calls[c].env = [ok |-> FALSE, status |-> 0, data |-> "socket error"]
            /\ calls[c].hit = "refused" =>
                 /\ calls[c].pc = "resolved"
                 /\ calls[c].env = [ok |-> FALSE, status |-> 0,
                                    data |-> ConnRefusedMessage(calls[c].port)])
    /\ [][\A c \in 1..Len(calls) :
            calls[c].pc = "resolved" =>
                calls'[c].pc = "resolved" /\ calls'[c].env = calls[c].env]_vars

C12_Witness ==
    \E c \in 1..Len(calls) :
        /\ calls[c].hit = "timeout"
        /\ calls[c].sock = "closed"
        /\ calls[c].code = 0

\* ------------------------------------------------------------ stream parser
NL == "\n"
Whitespace == {" ", "\t", "\r", NL}
DataPrefix == <<"d", "a", "t", "a", ":", " ">>

\* String.prototype.split('\n'): k newlines give k + 1 pieces
RECURSIVE SplitLines(_)
SplitLines(text) ==
    IF \A k \in 1..Len(text) : text[k] # NL
    THEN <<text>>
    ELSE LET k == CHOOSE j \in 1..Len(text) :
                      text[j] = NL /\ \A h \in 1..(j - 1) : text[h] # NL
         IN <<SubSeq(text, 1, k - 1)>> \o SplitLines(SubSeq(text, k + 1, Len(text)))

\* String.prototype.trim()
RECURSIVE Trim(_)
Trim(text) ==
    IF text = << >> THEN text
    ELSE IF text[1] \in Whitespace THEN Trim(Tail(text))
    ELSE IF text[Len(text)] \in Whitespace THEN Trim(SubSeq(text, 1, Len(text) - 1))
    ELSE text

\* String.prototype.startsWith
StartsWith(text, prefix) ==
    Len(text) >= Len(prefix) /\ SubSeq(text, 1, Len(prefix)) = prefix

DataEvent(payload) == [event |-> "data", data |-> payload]
ErrorEvent(message) == [event |-> "error", data |-> <<message>>]
EndEvent == [event |-> "end", data |-> << >>]

\* the body of the `for (const line of lines)` loop
LineEvents(line) ==
    LET trimmed == Trim(line)
    IN IF trimmed = << >> THEN << >>
       ELSE IF StartsWith(trimmed, DataPrefix)
            THEN <<DataEvent(SubSeq(trimmed, 7, Len(trimmed)))>>
            ELSE << >>

RECURSIVE LinesEvents(_)
LinesEvents(lines) ==
    IF lines = << >> THEN << >>
    ELSE LineEvents(Head(lines)) \o LinesEvents(Tail(lines))

\* (mutation) the incomplete last line is not kept across chunks
OnData_DropsPartial(buffer, chunk) ==
    LET lines == SplitLines(toString(chunk))
    IN [buffer |-> << >>,
        events |-> LinesEvents(SubSeq(lines, 1, Len(lines) - 1))]

\* res.on('data'): append the decoded chunk, split on newlines, keep the last
\* piece as the new buffer and turn the complete lines into events
OnData(buffer, chunk) ==
    LET lines == SplitLines(buffer \o toString(chunk))
    IN [buffer |-> lines[Len(lines)],
        events |-> LinesEvents(SubSeq(lines, 1, Len(lines) - 1))]

\* ------------------------------------------------------------ stream bridge
\* (mutation) the unavailable path forgets the terminal event
UnavailableEvents_NoEnd == <<ErrorEvent("Backend not available")>>

\* the two events sent when the backend is unavailable
UnavailableEvents == <<ErrorEvent("Backend not available"), EndEvent>>

\* (mutation) an error callback sends the error without the terminal event
ErrorEvents_NoEnd(message) == <<ErrorEvent(message)>>

\* the two events sent by the res 'error' and req 'error' callbacks
ErrorEvents(message) == <<ErrorEvent(message), EndEvent>>

\* webContents.send guarded by `if (!webContents.isDestroyed())`
Send(events, new) == IF rendererGone THEN events ELSE events \o new

\* pc: "unavailable"  the backend was not healthy: no upstream request
\*     "sent"         the upstream request is on the wire, no response yet
\*     "streaming"    the response callback ran, chunks are arriving
\*     "reqErrored"   a socket error hit the request while streaming; the
\*                    response is being destroyed
\*     "cancelledSent", "cancelledStreaming"  req.destroy() was called by
\*                    cancel before / after the response started
\*     "closed"       the upstream connection is gone, nothing is pending
\* body: the text the upstream will send; rest: the part not yet received;
\* held: some chunk ended inside a line; errors: error callbacks run; mark:
\* number of events emitted when cancel destroyed the request, -1 before;
\* returned: number of events already sent when the handler returned the id.
NewStream(pc, port, body, events) ==
    [pc |-> pc, at |-> backendStatus, port |-> port, body |-> body,
     rest |-> body, buffer |-> << >>, held |-> FALSE, events |-> events,
     errors |-> 0, mark |-> -1, returned |-> Len(events)]

\* STREAM_START handler, for a request whose upstream answer will be body.
BeginStream(body) ==
    /\ appReady
    /\ ~rendererGone
    /\ Len(streams) < MaxStreams
    /\ IF BackendUnavailable
       THEN /\ streams' = Append(streams,
                    NewStream("unavailable", 0, << >>, UnavailableEvents))
            /\ UNCHANGED activeStreams
       ELSE /\ streams' = Append(streams,
                    NewStream("sent", backendPort, body, << >>))
            /\ activeStreams' = activeStreams \cup {Len(streams) + 1}
    /\ UNCHANGED <<supVars, calls, rendererGone, credVars>>
    /\ UNCHANGED hostExited

\* http.request callback: a live backend starts the response.
ResponseStart(id) ==
    /\ id \in 1..Len(streams)
    /\ streams[id].pc = "sent"
    /\ streams[id].port \in BoundPorts
    /\ streams' = [streams EXCEPT ![id].pc = "streaming"]
    /\ UNCHANGED <<supVars, calls, activeStreams, rendererGone, credVars>>
    /\ UNCHANGED hostExited

\* res.on('data') with the next n bytes of the upstream body.
StreamData(id, n) ==
    /\ id \in 1..Len(streams)
    /\ streams[id].pc = "streaming"
    /\ n \in 1..Len(streams[id].rest)
    /\ LET st == streams[id]
           r == OnData(st.buffer, SubSeq(st.rest, 1, n))
       IN streams' = [streams EXCEPT
              ![id].rest = SubSeq(st.rest, n + 1, Len(st.rest)),
              ![id].buffer = r.buffer,
              ![id].held = @ \/ r.buffer # << >>,
              ![id].events = Send(st.events, r.events)]
    /\ UNCHANGED <<supVars, calls, activeStreams, rendererGone, credVars>>
    /\ UNCHANGED hostExited

\* (mutation) the end callback parses what is left in the buffer as a line
StreamEnd_FlushesBuffer(id) ==
    /\ id \in 1..Len(streams)
    /\ streams[id].pc = "streaming"
    /\ streams[id].rest = << >>
    /\ activeStreams' = activeStreams \ {id}
    /\ streams' = [streams EXCEPT
           ![id].pc = "closed",
           ![id].events = Send(@, LineEvents(streams[id].buffer) \o <<EndEvent>>)]
    /\ UNCHANGED <<supVars, calls, rendererGone, credVars>>
    /\ UNCHANGED hostExited

\* (mutation) the end callback leaves the entry in the table
StreamEnd_KeepsEntry(id) ==
    /\ id \in 1..Len(streams)
    /\ streams[id].pc = "streaming"
    /\ streams[id].rest = << >>
    /\ streams' = [streams EXCEPT ![id].pc = "closed",
                                  ![id].events = Send(@, <<EndEvent>>)]
    /\ UNCHANGED <<supVars, calls, activeStreams, rendererGone, credVars>>
    /\ UNCHANGED hostExited

\* res.on('end'): the upstream response completed.
StreamEnd(id) ==
    /\ id \in 1..Len(streams)
    /\ streams[id].pc = "streaming"
    /\ streams[id].rest = << >>
    /\ activeStreams' = activeStreams \ {id}
    /\ streams' = [streams EXCEPT ![id].pc = "closed",
                                  ![id].events = Send(@, <<EndEvent>>)]
    /\ UNCHANGED <<supVars, calls, rendererGone, credVars>>
    /\ UNCHANGED hostExited

\* req.on('error') before any response (refused or reset connection).
StreamReqError(id) ==
    /\ id \in 1..Len(streams)
    /\ streams[id].pc = "sent"
    /\ activeStreams' = activeStreams \ {id}
    /\ streams' = [streams EXCEPT ![id].pc = "closed",
                                  ![id].errors = @ + 1,
                                  ![id].events = Send(@, ErrorEvents("socket error"))]
    /\ UNCHANGED <<supVars, calls, rendererGone, credVars>>
    /\ UNCHANGED hostExited

\* req.on('error') while streaming: a socket error is reported on the request
\* whether or not the response has started; the socket is then destroyed.
StreamSocketError(id) ==
    /\ id \in 1..Len(streams)
    /\ streams[id].pc = "streaming"
    /\ activeStreams' = activeStreams \ {id}
    /\ streams' = [streams EXCEPT ![id].pc = "reqErrored",
                                  ![id].errors = @ + 1,
                                  ![id].events = Send(@, ErrorEvents("socket error"))]
    /\ UNCHANGED <<supVars, calls, rendererGone, credVars>>
    /\ UNCHANGED hostExited

\* res.on('error'): the connection closed before the response was complete
\* (on its own, or as the close that follows a socket error).
StreamResError(id) ==
    /\ id \in 1..Len(streams)
    /\ streams[id].pc \in {"streaming", "reqErrored"}
    /\ activeStreams' = activeStreams \ {id}
    /\ streams' = [streams EXCEPT ![id].pc = "closed",
                                  ![id].errors = @ + 1,
                                  ![id].events = Send(@, ErrorEvents("aborted"))]
    /\ UNCHANGED <<supVars, calls, rendererGone, credVars>>
    /\ UNCHANGED hostExited

\* (mutation) the handler destroys the request without looking it up
cancelStream_NoLookup(table, strs, id) ==
    IF id \in 1..Len(strs)
    THEN [activeStreams |-> table \ {id},
          streams |-> [strs EXCEPT
              ![id].pc = IF @ = "sent" THEN "cancelledSent" ELSE "cancelledStreaming",
              ![id].mark = Len(strs[id].events)]]
    ELSE [activeStreams |-> table, streams |-> strs]

\* The body of the STREAM_CANCEL handler on table `table` and streams `strs`:
\* `const req = activeStreams.get(streamId); if (req) { req.destroy();
\* activeStreams.delete(streamId); }`
cancelStream(table, strs, id) ==
    IF id \in table
    THEN [activeStreams |-> table \ {id},
          streams |-> [strs EXCEPT
              ![id].pc = IF @ = "sent" THEN "cancelledSent" ELSE "cancelledStreaming",
              ![id].mark = Len(strs[id].events)]]
    ELSE [activeStreams |-> table, streams |-> strs]

\* (mutation) cancel destroys every request of the table
CancelStream_All(id) ==
    /\ id \in 1..Len(streams)
    /\ ~rendererGone
    /\ id \in activeStreams
    /\ activeStreams' = {}
    /\ streams' = [j \in 1..Len(streams) |->
           IF j \in activeStreams
           THEN [streams[j] EXCEPT
                    !.pc = IF @ = "sent" THEN "cancelledSent" ELSE "cancelledStreaming",
                    !.mark = Len(streams[j].events)]
           ELSE streams[j]]
    /\ UNCHANGED <<supVars, calls, rendererGone, credVars>>
    /\ UNCHANGED hostExited

\* STREAM_CANCEL handler for a streamId in the table.
CancelStream(id) ==
    /\ id \in 1..Len(streams)
    /\ ~rendererGone
    /\ id \in activeStreams
    /\ LET r == cancelStream(activeStreams, streams, id)
       IN /\ activeStreams' = r.activeStreams
          /\ streams' = r.streams
    /\ UNCHANGED <<supVars, calls, rendererGone, credVars>>
    /\ UNCHANGED hostExited

\* The 'error' that follows req.destroy(): on the request (socket hang up)
\* when no response had started, on the response (aborted) otherwise.
StreamLateError(id) ==
    /\ id \in 1..Len(streams)
    /\ streams[id].pc \in {"cancelledSent", "cancelledStreaming"}
    /\ activeStreams' = activeStreams \ {id}
    /\ streams' = [streams EXCEPT
           ![id].pc = "closed",
           ![id].errors = @ + 1,
           ![id].events = Send(@, ErrorEvents(IF streams[id].pc = "cancelledSent"
                                              THEN "socket hang up" ELSE "aborted"))]
    /\ UNCHANGED <<supVars, calls, rendererGone, credVars>>
    /\ UNCHANGED hostExited

\* The renderer window that began the streams is closed.
RendererDestroyed ==
    /\ appReady
    /\ ~rendererGone
    /\ rendererGone' = TRUE
    /\ UNCHANGED <<supVars, calls, streams, activeStreams, credVars>>
    /\ UNCHANGED hostExited

Text(line) == line \o <<NL>>
LineA == <<"d", "a", "t", "a", ":", " ", "a">>
LineB == <<"d", "a", "t", "a", ":", " ", "b">>

\* upstream bodies of the streams whose life cycle is explored
StreamBodies == {<< >>, Text(LineA)}

\* The first launch of the backend runs underneath the stream bridge.
StreamNext ==
    \/ AppReady
    \/ PortAllocated(1)
    \/ HealthAnswer(1)
    \/ HealthReply(1)
    \/ \E body \in StreamBodies : BeginStream(body)
    \/ \E id \in 1..MaxStreams : ResponseStart(id)
    \/ \E id \in 1..MaxStreams : \E n \in 1..Len(Text(LineA)) : StreamData(id, n)
    \/ \E id \in 1..MaxStreams : StreamEnd(id)
    \/ \E id \in 1..MaxStreams : StreamReqError(id)
    \/ \E id \in 1..MaxStreams : StreamSocketError(id)
    \/ \E id \in 1..MaxStreams : StreamResError(id)
    \/ \E id \in 1..MaxStreams : CancelStream(id)
    \/ \E id \in 1..MaxStreams : StreamLateError(id)
    \/ RendererDestroyed

StreamSpec == Init /\ [][StreamNext]_vars

\* ------------------------------------------------------------ stream parsing
\* lines an upstream can send: two data lines, a blank line, a data line with
\* an empty payload, a line without the space of the prefix, a line of another
\* kind, a data line ending in a carriage return, a data line with a two-byte
\* character, an indented data line
ParserLines ==
    { LineA, LineB, << >>,
      <<"d", "a", "t", "a", ":", " ">>,
      <<"d", "a", "t", "a", ":", "a">>,
      <<"x">>,
      <<"d", "a", "t", "a", ":", " ", "a", "\r">>,
      <<"d", "a", "t", "a", ":", " ", LeadByte, TrailByte>>,
      <<" ", "d", "a", "t", "a", ":", " ", "b">> }

\* what may follow the last newline of a body
ParserTails == {<< >>, <<"d", "a", "t", "a", ":", " ", "c">>}

RECURSIVE CompleteBodies(_)
\* the bodies made of at most k newline-terminated lines
CompleteBodies(k) ==
    IF k = 0 THEN {<< >>}
    ELSE LET shorter == CompleteBodies(k - 1)
         IN shorter \cup {Text(line) \o body : line \in ParserLines, body \in shorter}

ParserBodies == {body \o tail : body \in CompleteBodies(MaxLines), tail \in ParserTails}

\* longest body, hence longest chunk
MaxBody == MaxLines * 9 + 7

\* One stream on a healthy backend, its body cut into chunks at any positions.
ParserNext ==
    \/ AppReady
    \/ PortAllocated(1)
    \/ HealthAnswer(1)
    \/ HealthReply(1)
    \/ \E body \in ParserBodies : Len(streams) = 0 /\ BeginStream(body)
    \/ ResponseStart(1)
    \/ \E n \in 1..MaxBody : StreamData(1, n)
    \/ StreamEnd(1)

ParserSpec == Init /\ [][ParserNext]_vars

\* ------------------------------------------------------ stream properties
Kinds(events) == [k \in 1..Len(events) |-> events[k].event]
DataOf(events) == SelectSeq(events, LAMBDA e : e.event = "data")
CompleteLines(body) == LET lines == SplitLines(body) IN SubSeq(lines, 1, Len(lines) - 1)
IsComplete(body) == body = << >> \/ body[Len(body)] = NL

\* C13: for a body of complete newline-terminated lines followed by normal
\* completion, the events of the stream are one Data event per line that
\* begins with the prefix "data: ", then one End event, and nothing else.
C13_CompleteLines ==
    \A id \in 1..Len(streams) :
        LET st == streams[id]
            prefixed == SelectSeq(CompleteLines(st.body),
                                  LAMBDA line : StartsWith(line, DataPrefix))
        IN (st.pc = "closed" /\ st.errors = 0 /\ IsComplete(st.body)) =>
              Kinds(st.events) = [k \in 1..(Len(prefixed) + 1) |->
                                    IF k <= Len(prefixed) THEN "data" ELSE "end"]

\* C14 (as claimed): the Data events emitted so far, and the partial line
\* retained, are those of parsing the bytes received so far in one piece,
\* wherever the chunk boundaries fell.
C14_ChunkingIrrelevant ==
    \A id \in 1..Len(streams) :
        LET st == streams[id]
            consumed == SubSeq(st.body, 1, Len(st.body) - Len(st.rest))
            whole == OnData(<< >>, consumed)
        IN st.pc \in {"streaming", "closed"} =>
              /\ DataOf(st.events) = whole.events
              /\ st.pc = "streaming" => st.buffer = whole.buffer

\* a line that arrived in several chunks gave one Data event with its payload
C14_Witness ==
    \E id \in 1..Len(streams) :
        /\ streams[id].held
        /\ streams[id].pc = "closed"
        /\ streams[id].body = Text(LineA)
        /\ streams[id].events = <<DataEvent(<<"a">>), EndEvent>>

\* C15: for every stream, End is emitted at most once and no event follows it.
C15_EndIsLast ==
    \A id \in 1..Len(streams) :
        \A k \in 1..Len(streams[id].events) :
            streams[id].events[k].event = "end" => k = Len(streams[id].events)

\* C16: once cancel has destroyed the request of a stream, the stream is out
\* of the table and no further event is emitted for it.
C16_CancelIsSilent ==
    \A id \in 1..Len(streams) :
        streams[id].mark >= 0 =>
            /\ id \notin activeStreams
            /\ Len(streams[id].events) = streams[id].mark

\* C19: a stream begun while the backend was not healthy got exactly one Error
\* event then one End event, has no upstream connection and no table entry.
C19_UnavailableStream ==
    \A id \in 1..Len(streams) :
        streams[id].at # "healthy" =>
            /\ streams[id].events = <<[event |-> "error", data |-> <<"Backend not available">>],
                                      [event |-> "end", data |-> << >>]>>
            /\ streams[id].pc = "unavailable"
            /\ streams[id].port = 0
            /\ id \notin activeStreams

C19_Witness ==
    \E id \in 1..Len(streams) :
        /\ streams[id].at = "starting"
        /\ streams[id].pc = "unavailable"
        /\ Len(streams[id].events) = 2
        /\ backendStatus = "healthy"

\* an error callback (request error or response error) of stream id runs
ErrorCallback(id) == streams'[id].errors > streams[id].errors
ErrorMessages == {"socket error", "aborted", "socket hang up"}
ErrorThenEnd(id) ==
    \E message \in ErrorMessages :
        streams'[id].events = streams[id].events \o
            <<[event |-> "error", data |-> <<message>>], [event |-> "end", data |-> << >>]>>

\* C20 as stated: every upstream error of a stream emits an Error event
\* carrying the message, immediately followed by an End event.
C20_ErrorThenEnd ==
    [][\A id \in 1..Len(streams) : ErrorCallback(id) => ErrorThenEnd(id)]_vars

\* C20 amended: every upstream error of a stream emits an Error event carrying
\* the message, immediately followed by an End event, provided the renderer
\* that began the stream still exists; otherwise it emits nothing.
C20_ErrorThenEndIfAlive ==
    [][\A id \in 1..Len(streams) :
          ErrorCallback(id) =>
              IF rendererGone THEN streams'[id].events = streams[id].events
              ELSE ErrorThenEnd(id)]_vars

\* a response error after a Data event: Data, Error, End and nothing between
C20_Witness ==
    \E id \in 1..Len(streams) :
        /\ streams[id].errors = 1
        /\ ~rendererGone
        /\ Kinds(streams[id].events) = <<"data", "error", "end">>

\* the upstream request of the stream is open: sent or streaming, and neither
\* ended, failed nor destroyed
ConnectionOpen(id) == streams[id].pc \in {"sent", "streaming"}
EndEmitted(id) == \E k \in 1..Len(streams[id].events) : streams[id].events[k].event = "end"

\* C21: a streamId is in the table exactly while the upstream connection of
\* its stream is open; a stream whose End was emitted, or that was cancelled,
\* has neither a table entry nor an open connection.
C21_TableTracksConnection ==
    \A id \in 1..Len(streams) :
        /\ id \in activeStreams <=> ConnectionOpen(id)
        /\ (EndEmitted(id) \/ streams[id].mark >= 0) =>
               (id \notin activeStreams /\ ~ConnectionOpen(id))

\* one stream has ended normally and left the table while another is open
C21_Witness ==
    \E id, other \in 1..Len(streams) :
        /\ streams[id].pc = "closed"
        /\ streams[id].errors = 0
        /\ EndEmitted(id)
        /\ id \notin activeStreams
        /\ other \in activeStreams
        /\ streams[other].pc = "streaming"

\* C22: a step that changes one stream (its cancel, end, error or data)
\* leaves the record, the events and the table entry of every other stream
\* unchanged; and a new stream gets an id no earlier stream has.
C22_StreamsIndependent ==
    [][/\ \A id, other \in 1..Len(streams) :
             (id # other /\ streams'[id] # streams[id]) =>
                 /\ streams'[other] = streams[other]
                 /\ other \in activeStreams' <=> other \in activeStreams
       /\ Len(streams') > Len(streams) =>
             /\ Len(streams') = Len(streams) + 1
             /\ \A other \in 1..Len(streams) :
                    /\ streams'[other] = streams[other]
                    /\ other \in activeStreams' <=> other \in activeStreams]_vars

\* one stream was cancelled while another goes on streaming with its events
C22_Witness ==
    \E id, other \in 1..Len(streams) :
        /\ streams[id].mark >= 0
        /\ other \in activeStreams
        /\ streams[other].pc = "streaming"
        /\ streams[other].events # << >>

\* ------------------------------------------------------- port confidentiality
\* the values that name the backend port
PortMessages == {ConnRefusedMessage(port) : port \in Ports}

\* C23 (as claimed): no envelope delivered to the renderer carries a value
\* that contains the backend port.
C23_PortNeverLeaks ==
    \A c \in 1..Len(calls) :
        calls[c].pc = "resolved" => calls[c].env.data \notin PortMessages

\* -------------------------------------------------- credential IPC handlers
IdleOp ==
    [pc |-> "idle", op |-> "none", arg |-> [given |-> FALSE, service |-> << >>],
     new |-> {}, newMap |-> {}, push |-> FALSE]

\* names and values the renderer passes; the empty ones are rejected by set
Services == {Huggingface, Huggingface \o <<":", "x">>}
Keys == {ApiKey, <<"x", ":">> \o ApiKey}
Values == {"v1", "v2"}

\* the request of pushCredentialToBackend
PushRequest == [wellFormed |-> TRUE]

\* writeStore(store) up to the moment writeFileSync has opened the .tmp file:
\* the handler is now inside the write, and the ghost map newMap is what the
\* (service, key) map becomes when the write commits.
BeginWrite(op, arg, store, map, push) ==
    /\ credOp' = [pc |-> "writing", op |-> op, arg |-> arg,
                  new |-> store, newMap |-> map, push |-> push]
    /\ tmpFile' = File("partial", {})
    /\ UNCHANGED <<storeFile, credMap, decrypts, calls>>

\* pushCredentialToBackend('HF_TOKEN', 'huggingface', 'api_key') up to its
\* await: getCredential, then the executor of makeBackendRequest.
PushCredentialToBackend(store, context) ==
    /\ \E avail \in BOOLEAN :
         decrypts' = IF Decrypts(store, Huggingface, ApiKey, avail)
                     THEN decrypts \cup {context} ELSE decrypts
    /\ calls' = Append(calls, ForwardCall(PushRequest))

\* CREDENTIAL_SET handler, up to the open of the .tmp file (or to its return
\* when setCredential refuses).
CredentialSet(service, key, value) ==
    /\ appReady
    /\ credOp.pc = "idle"
    /\ service = Huggingface => Len(calls) < MaxPushes
    /\ \E avail \in BOOLEAN :
         IF service = << >> \/ key = << >> \/ value = "" \/ ~avail
         THEN UNCHANGED <<credVars, calls>>
         ELSE BeginWrite("set", [given |-> TRUE, service |-> service],
                         Put(readStore, compositeKey(service, key), encryptString(value)),
                         {c \in credMap : ~(c.service = service /\ c.key = key)}
                             \cup {[service |-> service, key |-> key, value |-> value]},
                         service = Huggingface)
    /\ UNCHANGED <<supVars, strVars>>
    /\ UNCHANGED hostExited

\* CREDENTIAL_DELETE handler: a key that is not in the store is not written,
\* and the handler goes straight to its push.
CredentialDelete(service, key) ==
    /\ appReady
    /\ credOp.pc = "idle"
    /\ service = Huggingface => Len(calls) < MaxPushes
    /\ IF hasCredential(service, key)
       THEN BeginWrite("delete", [given |-> TRUE, service |-> service],
                       Remove(readStore, compositeKey(service, key)),
                       {c \in credMap : ~(c.service = service /\ c.key = key)},
                       service = Huggingface)
       ELSE /\ IF service = Huggingface
               THEN PushCredentialToBackend(readStore, "delete")
               ELSE UNCHANGED <<decrypts, calls>>
            /\ credMap' = {c \in credMap : ~(c.service = service /\ c.key = key)}
            /\ UNCHANGED <<storeFile, tmpFile, credOp>>
    /\ UNCHANGED <<supVars, strVars>>
    /\ UNCHANGED hostExited

\* CREDENTIAL_CLEAR handler: a missing or empty service clears everything,
\* otherwise every composite key that starts with `${service}:` goes.
CredentialClear(given, service) ==
    /\ appReady
    /\ credOp.pc = "idle"
    /\ LET prefix == service \o <<":">>
           arg == [given |-> given, service |-> service]
       IN IF ~given \/ service = << >>
          THEN BeginWrite("clear", arg, {}, {}, FALSE)
          ELSE BeginWrite("clear", arg,
                          {entry \in readStore : ~StartsWith(entry.ck, prefix)},
                          {c \in credMap : c.service # service}, FALSE)
    /\ UNCHANGED <<supVars, strVars>>
    /\ UNCHANGED hostExited

\* writeFileSync(tmpPath, ...) completes.
TmpWritten ==
    /\ credOp.pc = "writing"
    /\ credOp' = [credOp EXCEPT !.pc = "written"]
    /\ tmpFile' = File("complete", credOp.new)
    /\ UNCHANGED <<supVars, calls, strVars, storeFile, credMap, decrypts>>
    /\ UNCHANGED hostExited

\* (mutation) the rename does not wait for the end of the write
RenameStore_Early ==
    /\ credOp.pc \in {"writing", "written"}
    /\ storeFile' = tmpFile
    /\ tmpFile' = NoFile
    /\ credMap' = credOp.newMap
    /\ credOp' = IdleOp
    /\ IF credOp.push
       THEN PushCredentialToBackend(credOp.new, credOp.op)
       ELSE UNCHANGED <<decrypts, calls>>
    /\ UNCHANGED <<supVars, strVars>>
    /\ UNCHANGED hostExited

\* fs.renameSync(tmpPath, storePath), then the rest of the handler: the push
\* of the Hugging Face token when the service is 'huggingface'.
RenameStore ==
    /\ credOp.pc = "written"
    /\ storeFile' = tmpFile
    /\ tmpFile' = NoFile
    /\ credMap' = credOp.newMap
    /\ credOp' = IdleOp
    /\ IF credOp.push
       THEN PushCredentialToBackend(credOp.new, credOp.op)
       ELSE UNCHANGED <<decrypts, calls>>
    /\ UNCHANGED <<supVars, strVars>>
    /\ UNCHANGED hostExited

\* The main process dies inside writeStore and the application is launched
\* again: the files stay as they are, everything in memory starts afresh.
CrashRelaunch ==
    /\ credOp.pc \in {"writing", "written"}
    /\ credOp' = IdleOp
    /\ appReady' = FALSE
    /\ pythonProcess' = 0
    /\ backendPort' = 0
    /\ backendStatus' = "stopped"
    /\ isIntentionalShutdown' = FALSE
    /\ restartCount' = 0
    /\ procs' = << >>
    /\ starts' = << >>
    /\ stops' = << >>
    /\ calls' = << >>
    /\ UNCHANGED <<strVars, storeFile, tmpFile, credMap, decrypts>>
    /\ UNCHANGED hostExited

\* The credential handlers, with the first launch of the backend underneath.
CredNext ==
    \/ AppReady
    \/ PortAllocated(1)
    \/ \E service \in Services \cup {<< >>}, key \in Keys \cup {<< >>},
          value \in Values \cup {""} : CredentialSet(service, key, value)
    \/ \E service \in Services, key \in Keys : CredentialDelete(service, key)
    \/ \E given \in BOOLEAN, service \in Services \cup {<< >>} :
          CredentialClear(given, service)
    \/ TmpWritten
    \/ RenameStore
    \/ CrashRelaunch

CredSpec == Init /\ [][CredNext]_vars

\* ----------------------------------------------------- credential properties
\* C24 (as claimed): decryptString runs only on behalf of start(); no
\* credential handler called by the renderer causes a decryption.
C24_DecryptOnlyAtStart == decrypts \subseteq {"start"}

Recorded(service, key) == {c \in credMap : c.service = service /\ c.key = key}

\* C27 (as claimed): whenever no update is in progress, getCredential(s, k)
\* returns the value of the latest successful set on the pair (s, k), null
\* when there is none or it was deleted, and hasCredential(s, k) is true
\* exactly when there is one.
C27_MapByPair ==
    credOp.pc = "idle" =>
        \A service \in Services, key \in Keys :
            LET recorded == Recorded(service, key)
                got == getCredential(service, key, TRUE)
            IN /\ hasCredential(service, key) <=> recorded # {}
               /\ got.found <=> recorded # {}
               /\ got.found => got.value \in {c.value : c \in recorded}

\* C28 (as claimed): when clearCredentials commits, every credential of the
\* service given is gone and every credential of another service is still
\* there; without a service (none, or the empty name) every credential is
\* gone.
C28_ClearByService ==
    [][(credOp.op = "clear" /\ credOp.pc = "written" /\ tmpFile' = NoFile) =>
          \A c \in credMap :
              hasCredentialIn(storeFile'.content, c.service, c.key)
                  <=> /\ credOp.arg.given
                      /\ credOp.arg.service # << >>
                      /\ c.service # credOp.arg.service]_vars

\* C29: the store file is never partially written: it changes only by the
\* rename of a completely written .tmp file that holds the new content.
C29_AtomicWrite ==
    /\ [](storeFile.state \in {"missing", "complete"})
    /\ [][storeFile' # storeFile =>
            /\ tmpFile = File("complete", credOp.new)
            /\ storeFile' = tmpFile]_vars

\* a crash inside the write left a partial .tmp file next to an intact store
C29_Witness ==
    /\ credOp.pc = "idle"
    /\ tmpFile.state = "partial"
    /\ storeFile.state = "complete"
    /\ storeFile.content # {}

\* ---------------------------------------------------------- port allocation
\* getFreePort() step by step. A start() inside it has pc "listening" while
\* its temporary server is bound to starts[i].port, and "released" once the
\* callback of server.close() has resolved the promise with that port.
ListenerPorts == {starts[i].port : i \in {j \in 1..Len(starts) : starts[j].pc = "listening"}}

\* server.listen(0, '127.0.0.1') succeeds: the OS picks a port nobody is
\* bound to, and the listen callback reads it and calls server.close().
ListenerBound(i) ==
    /\ i \in 1..Len(starts)
    /\ starts[i].pc = "port"
    /\ \E port \in FreePorts \ ListenerPorts :
         starts' = [starts EXCEPT ![i].pc = "listening", ![i].port = port]
    /\ UNCHANGED <<appReady, pythonProcess, backendPort, backendStatus,
                   isIntentionalShutdown, restartCount, procs, stops, calls, strVars, credVars>>
    /\ UNCHANGED hostExited

\* The callback of server.close(): the listener is gone, resolve(port).
ListenerClosed(i) ==
    /\ i \in 1..Len(starts)
    /\ starts[i].pc = "listening"
    /\ starts' = [starts EXCEPT ![i].pc = "released"]
    /\ UNCHANGED <<appReady, pythonProcess, backendPort, backendStatus,
                   isIntentionalShutdown, restartCount, procs, stops, calls, strVars, credVars>>
    /\ UNCHANGED hostExited

\* (mutation) the promise resolves from the listen callback, without waiting
\* for the close
PortResolved_BeforeClose(i) ==
    /\ i \in 1..Len(starts)
    /\ starts[i].pc \in {"listening", "released"}
    /\ \E spawnOk \in BOOLEAN :
         /\ backendStatus' = "starting"
         /\ procs' = Append(procs,
                [state |-> IF spawnOk THEN "running" ELSE "failed",
                 port |-> starts[i].port, killed |-> FALSE,
                 sigterm |-> FALSE, sigkill |-> FALSE, crashed |-> FALSE])
         /\ pythonProcess' = Len(procs) + 1
         /\ backendPort' = starts[i].port
         /\ starts' = [starts EXCEPT ![i] =
                [pc |-> "polling", port |-> starts[i].port, proc |-> Len(procs) + 1]]
    /\ \E avail \in BOOLEAN :
         decrypts' = IF Decrypts(readStore, Huggingface, ApiKey, avail)
                     THEN decrypts \cup {"start"} ELSE decrypts
    /\ UNCHANGED <<appReady, isIntentionalShutdown, restartCount, stops, calls, strVars,
                   storeFile, tmpFile, credOp, credMap>>
    /\ UNCHANGED hostExited

\* startPythonBackend() continues after `await getFreePort()` with the port
\* the allocator resolved: what PortAllocated does, on that port.
PortResolved(i) ==
    /\ i \in 1..Len(starts)
    /\ starts[i].pc = "released"
    /\ \E spawnOk \in BOOLEAN :
         /\ backendStatus' = "starting"
         /\ procs' = Append(procs,
                [state |-> IF spawnOk THEN "running" ELSE "failed",
                 port |-> starts[i].port, killed |-> FALSE,
                 sigterm |-> FALSE, sigkill |-> FALSE, crashed |-> FALSE])
         /\ pythonProcess' = Len(procs) + 1
         /\ backendPort' = starts[i].port
         /\ starts' = [starts EXCEPT ![i] =
                [pc |-> "polling", port |-> starts[i].port, proc |-> Len(procs) + 1]]
    /\ \E avail \in BOOLEAN :
         decrypts' = IF Decrypts(readStore, Huggingface, ApiKey, avail)
                     THEN decrypts \cup {"start"} ELSE decrypts
    /\ UNCHANGED <<appReady, isIntentionalShutdown, restartCount, stops, calls, strVars,
                   storeFile, tmpFile, credOp, credMap>>
    /\ UNCHANGED hostExited

\* Launch, crashes and restarts with the allocator's steps spelled out.
PortNext ==
    \/ AppReady
    \/ \E i \in 1..(MAX_RESTARTS + 2) : PortFailed(i)
    \/ \E i \in 1..(MAX_RESTARTS + 2) : ListenerBound(i)
    \/ \E i \in 1..(MAX_RESTARTS + 2) : ListenerClosed(i)
    \/ \E i \in 1..(MAX_RESTARTS + 2) : PortResolved(i)
    \/ \E i \in 1..(MAX_RESTARTS + 2) : HealthFalse(i)
    \/ \E i \in 1..(MAX_RESTARTS + 2) : HealthAnswer(i)
    \/ \E i \in 1..(MAX_RESTARTS + 2) : HealthReply(i)
    \/ \E p \in 1..(MAX_RESTARTS + 2) : ProcDie(p)
    \/ \E p \in 1..(MAX_RESTARTS + 2) : ExitEvent(p)

PortSpec == Init /\ [][PortNext]_vars

SpawnedBy(i) == starts[i].pc # "polling" /\ starts'[i].pc = "polling"

\* C26: the port start() spawns the backend on is one getFreePort() resolved
\* after the close of its listener: it lies in 1..65535, and at the spawn no
\* listener of the allocator is bound to it.
C26_PortReleased ==
    [][\A i \in 1..Len(starts) :
          SpawnedBy(i) =>
              /\ starts[i].pc = "released"
              /\ backendPort' \in 1..65535
              /\ backendPort' = starts[i].port
              /\ backendPort' \notin ListenerPorts]_vars

\* a backend was spawned on a port the allocator had bound and released,
\* and was restarted on a port allocated the same way
C26_Witness ==
    /\ Len(starts) >= 2
    /\ starts[2].pc = "polling"
    /\ pythonProcess = 2
    /\ backendPort \in Ports
    /\ ListenerPorts = {}

RECURSIVE ExactLinesEvents(_)
\* one Data event per line that begins with the prefix, carrying the rest of
\* the line as it is
ExactLinesEvents(lines) ==
    IF lines = << >> THEN << >>
    ELSE (IF StartsWith(Head(lines), DataPrefix)
          THEN <<[event |-> "data", data |-> SubSeq(Head(lines), 7, Len(Head(lines)))]>>
          ELSE << >>) \o ExactLinesEvents(Tail(lines))

\* C30 (as claimed): every complete line received that begins with "data: "
\* has given one Data event whose payload is the rest of the line, unchanged,
\* and no other line has given an event.
C30_ExactPayload ==
    \A id \in 1..Len(streams) :
        LET st == streams[id]
            consumed == SubSeq(st.body, 1, Len(st.body) - Len(st.rest))
        IN st.pc \in {"streaming", "closed"} =>
              DataOf(st.events) = ExactLinesEvents(CompleteLines(toString(consumed)))

\* ------------------------------------------------------------ response bodies
\* bodies a backend answers with: nothing, text that is not JSON, a JSON
\* string, and a JSON string and a text with a two-byte character
ResponseBodies ==
    { << >>, <<"o", "k">>, <<Quote, "o", "k", Quote>>,
      <<Quote, LeadByte, TrailByte, Quote>>, <<LeadByte, TrailByte>> }

\* One forwarded request on a healthy backend, its response body cut into
\* chunks at any positions.
BodyNext ==
    \/ AppReady
    \/ PortAllocated(1)
    \/ HealthAnswer(1)
    \/ HealthReply(1)
    \/ Len(calls) = 0 /\ Forward([wellFormed |-> TRUE])
    \/ \E body \in ResponseBodies : ResponseHead(1, body)
    \/ \E n \in 1..4 : ResponseData(1, n)
    \/ ResponseEnd(1)

BodySpec == Init /\ [][BodyNext]_vars

\* C25 (as claimed): a completed response resolves the call with the HTTP
\* status code as status and, as data, the JSON value of the body when the
\* body is JSON and the text of the body unchanged otherwise.
C25_BodyDecoded ==
    \A c \in 1..Len(calls) :
        (calls[c].code # 0 /\ calls[c].rest = << >> /\ calls[c].pc # "body") =>
            /\ calls[c].pc = "resolved"
            /\ calls[c].env.status = calls[c].code
            /\ calls[c].env.data = Parsed(toString(calls[c].body))

\* --------------------------------------- supervisor: exits and health, again
\* 'exit' of p is delivered to the listeners in this step
ExitOf(p) == procs[p].state = "dead" /\ procs'[p].state = "exited"

\* C31 (as claimed): an exit observed while the intentional-shutdown flag is
\* set leaves restartCount unchanged, begins no start(), and sets status to
\* Stopped, not to Unhealthy.
C31_IntentionalExit ==
    [][\A p \in 1..Len(procs) :
          (ExitOf(p) /\ isIntentionalShutdown) =>
              /\ restartCount' = restartCount
              /\ Len(starts') = Len(starts)
              /\ backendStatus' = "stopped"]_vars

\* C32 (as claimed): whenever a start() sets status to Healthy, the process
\* it polled is the most recently spawned one and its exit has not been
\* observed.
C32_HealthyIsCurrent ==
    [][\A i \in 1..Len(starts) :
          (starts[i].pc = "answered" /\ starts'[i].pc = "done") =>
              /\ starts[i].proc = Len(procs)
              /\ procs[starts[i].proc].state # "exited"]_vars

\* ------------------------------------------------------ stream subscribers
\* onStream(streamId, callback), registered once startStream has resolved
\* with the id: the listener is called with the events sent on the channel
\* from then on; what was sent before had no listener and was dropped.
onStream(id) ==
    SubSeq(streams[id].events, streams[id].returned + 1, Len(streams[id].events))

\* One stream, with the first launch of the backend underneath.
SubscriberNext ==
    \/ AppReady
    \/ PortAllocated(1)
    \/ HealthAnswer(1)
    \/ HealthReply(1)
    \/ \E body \in StreamBodies \cup {Text(LineA) \o Text(LineB)} :
           Len(streams) = 0 /\ BeginStream(body)
    \/ ResponseStart(1)
    \/ \E n \in 1..Len(Text(LineA)) : StreamData(1, n)
    \/ StreamEnd(1)
    \/ StreamReqError(1)
    \/ StreamSocketError(1)
    \/ StreamResError(1)
    \/ CancelStream(1)
    \/ StreamLateError(1)
    \/ RendererDestroyed

\* The upstream answers and delivers its body, and a destroyed request or
\* response reports its error.
SubscriberFairSpec ==
    /\ Init /\ [][SubscriberNext]_vars
    /\ WF_vars(ResponseStart(1))
    /\ WF_vars(\E n \in 1..Len(Text(LineA)) : StreamData(1, n))
    /\ WF_vars(StreamEnd(1))
    /\ WF_vars(StreamLateError(1))
    /\ WF_vars(Len(streams) >= 1 /\ streams[1].pc = "reqErrored" /\ StreamResError(1))

\* the subscriber of stream 1 has received End, has cancelled, or is gone
Served ==
    /\ Len(streams) >= 1
    /\ \/ EndEvent \in {onStream(1)[k] : k \in 1..Len(onStream(1))}
       \/ streams[1].mark >= 0
       \/ rendererGone

\* C33 (as claimed): a subscriber registered as soon as the id of a stream has
\* been returned eventually receives the stream's End event, unless it
\* cancels or its window is closed.
C33_SubscriberSeesEnd == (Len(streams) >= 1) ~> Served

\* ------------------------------------------------ stream: the unterminated tail
\* the payload of the unterminated line of ParserTails
TailPayload == <<"c">>

\* 'end' of the upstream response of stream 1 is handled in this step
EndOf1 ==
    /\ Len(streams) >= 1
    /\ streams[1].pc = "streaming"
    /\ streams'[1].pc = "closed"

\* C34: on upstream completion what is buffered after the last newline is
\* discarded: End is the only event emitted by the completion, and the
\* payload of an unterminated final `data: ` line is in no Data event.
C34_TailDiscarded ==
    [][EndOf1 =>
          /\ streams'[1].events = Append(streams[1].events, EndEvent)
          /\ \A k \in 1..Len(streams'[1].events) :
                 streams'[1].events[k] # DataEvent(TailPayload)]_vars

\* a stream whose body ended in an unterminated `data: ` line has completed
C34_Witness ==
    /\ Len(streams) >= 1
    /\ streams[1].pc = "closed"
    /\ streams[1].buffer = DataPrefix \o TailPayload
    /\ streams[1].events # << >>
    /\ streams[1].events[Len(streams[1].events)] = EndEvent

\* C35: an unexpected exit observed while status is Starting is handled like
\* the crash of a healthy process: status becomes Unhealthy and, if
\* restartCount < 3, restartCount is incremented and a new start() is begun
\* (otherwise neither happens).
C35_CrashWhileStarting ==
    [][\A p \in 1..Len(procs) :
          (ExitOf(p) /\ backendStatus = "starting" /\ ~isIntentionalShutdown) =>
              /\ backendStatus' = "unhealthy"
              /\ IF restartCount < 3
                 THEN /\ restartCount' = restartCount + 1
                      /\ starts' = Append(starts, NewStart)
                 ELSE /\ restartCount' = restartCount
                      /\ starts' = starts]_vars

\* the first process exited before any health poll succeeded, and a second
\* start() was begun for it
C35_Witness ==
    /\ Len(starts) = 2
    /\ starts[1].pc = "polling"
    /\ starts[1].proc = 1
    /\ procs[1].state = "exited"
    /\ procs[1].crashed
    /\ backendStatus = "unhealthy"
    /\ restartCount = 1
    /\ starts[2] = NewStart

\* ------------------------------------------------ supervisor: after a timeout
\* start() i failed by health timeout and the process it spawned still runs
TimedOutRunning(i) ==
    /\ Len(starts) >= i
    /\ starts[i].pc = "failed"
    /\ starts[i].proc # 0
    /\ procs[starts[i].proc].state = "running"

\* the health wait of start() i runs out in this step
TimeoutOf(i) ==
    /\ Len(starts) >= i
    /\ starts[i].pc = "polling"
    /\ starts'[i].pc = "failed"

\* the health waits begun before that of start() i are over (they began
\* earlier and have the same 15 s budget)
EarlierSettled(i) == \A j \in 1..(i - 1) : starts[j].pc \in {"failed", "done"}

\* C36 (as claimed): when start() fails by health timeout, status is Starting
\* and stays so for as long as the spawned process keeps running, start() is
\* not resumed, and forward() answers "Backend not available".
C36_StaysStarting ==
    [][\A i \in 1..(BridgeCrashes + 1) :
          /\ (TimeoutOf(i) /\ EarlierSettled(i)
                  /\ procs[starts[i].proc].state = "running")
                 => backendStatus' = "starting"
          /\ (TimedOutRunning(i) /\ EarlierSettled(i) /\ backendStatus = "starting"
                  /\ procs'[starts[i].proc].state = "running")
                 => /\ backendStatus' = "starting"
                    /\ starts'[i] = starts[i]
                    /\ \A req \in Requests :
                           ForwardCall(req)'.env = ErrorEnvelope("Backend not available")]_vars

\* -------------------------------------------------- stream: repeated cancel
\* the ids a renderer may pass: those of the streams begun and one never begun
CancelIds == 1..(MaxStreams + 1)

\* C37: cancelStream on an id that is not in the stream table aborts nothing,
\* emits nothing and leaves the table unchanged, so cancelling an id twice
\* has the same effect as cancelling it once.
C37_CancelIdempotent ==
    \A id \in CancelIds :
        LET once == cancelStream(activeStreams, streams, id)
            twice == cancelStream(once.activeStreams, once.streams, id)
        IN /\ id \notin activeStreams =>
                  /\ once.activeStreams = activeStreams
                  /\ once.streams = streams
           /\ twice = once

\* stream 1 was cancelled and its late error was delivered, stream 2 has
\* ended, and neither is in the table
C37_Witness ==
    /\ Len(streams) = 2
    /\ streams[1].mark >= 0
    /\ streams[1].pc = "closed"
    /\ Len(streams[1].events) > streams[1].mark
    /\ streams[2].pc = "closed"
    /\ streams[2].mark = -1
    /\ activeStreams = {}

\* ------------------------------------------------------------ host exit
\* process.on('exit'): the safety net, run as the main process exits.
ProcessExit ==
    /\ appReady
    /\ ~hostExited
    /\ hostExited' = TRUE
    /\ procs' = IF pythonProcess # 0 /\ ~procs[pythonProcess].killed
                THEN KillProc(procs, pythonProcess, "SIGKILL")
                ELSE procs
    /\ UNCHANGED <<appReady, pythonProcess, backendPort, backendStatus,
                   isIntentionalShutdown, restartCount, starts, stops, calls,
                   strVars, credVars>>

\* The supervisor until the main process exits; the backend processes
\* outlive it and may still terminate afterwards.
QuitNext ==
    \/ ~hostExited /\ AppReady
    \/ \E i \in 1..(BridgeCrashes + 1) : ~hostExited /\ PortAllocated(i)
    \/ \E i \in 1..(BridgeCrashes + 1) : ~hostExited /\ HealthAnswer(i)
    \/ \E i \in 1..(BridgeCrashes + 1) : ~hostExited /\ HealthReply(i)
    \/ \E p \in 1..BridgeCrashes : ~hostExited /\ ExitEvent(p)
    \/ ~hostExited /\ BeforeQuit
    \/ \E s \in 1..MaxStops : ~hostExited /\ KillTimer(s)
    \/ \E p \in 1..(BridgeCrashes + 1) : ProcDie(p)
    \/ ProcessExit

QuitSpec == Init /\ [][QuitNext]_vars

\* C38 (as claimed): once the main process has exited, every backend process
\* still running has been sent SIGKILL.
C38_NoOrphan ==
    hostExited => \A p \in 1..Len(procs) : Running(p) => procs[p].sigkill

====
